---- MODULE Spec2Model ----
(***************************************************************************)
(* Model of django-enumfields: the enum-backed model fields                *)
(* (enumfields/fields.py) and the serializer mixin                         *)
(* (enumfields/drf/serializers.py).                                        *)
(*                                                                         *)
(* Python values are records [k, s, n] so that values of different Python  *)
(* types can be compared: k is the type tag, s the text of a str, n the    *)
(* number of an int or the position of an enum member in its enum.         *)
(* An enum is the sequence of its members in declaration order; a member   *)
(* is [value, label]: its primitive value and its optional label.          *)
(***************************************************************************)
EXTENDS Integers, Sequences, FiniteSets, TLC

VARIABLES
    enum,        \* the field's enum class: its members in declaration order
    dict,        \* obj.__dict__ of one model instance
    last,        \* the last call on the field or descriptor and its outcome
    choices,     \* the field's "choices" option after __init__
    choicesOut,  \* what get_choices returned last
    fields,      \* the EnumFields of a model class, in declaration order
    checked,     \* whether Model.check has run
    findings,    \* the findings Model.check has collected so far
    drfIn,       \* build_standard_field: the model field and the parent's result
    drfOpts,     \* the serializer's enumfield_options
    drfOut       \* build_standard_field: what it returned (or raised)

vars == <<enum, dict, last, choices, choicesOut, fields, checked, findings,
          drfIn, drfOpts, drfOut>>

(***************************************************************************)
(* Bounds                                                                  *)
(***************************************************************************)
MaxMembers == 2

(***************************************************************************)
(* Python values                                                           *)
(***************************************************************************)
None == [k |-> "none", s |-> "", n |-> 0]

StrV(x) == [k |-> "str", s |-> x, n |-> 0]

IntV(i) == [k |-> "int", s |-> "", n |-> i]

\* the i-th member of the field's enum
MemberV(i) == [k |-> "member", s |-> "", n |-> i]

\* an object that is neither a str nor equal to any member value
\* (a float such as 2.5, a member of another enum class)
Obj == [k |-> "obj", s |-> "", n |-> 0]

Digit(d) ==
    CASE d = 0 -> "0" [] d = 1 -> "1" [] d = 2 -> "2" [] d = 3 -> "3"
      [] d = 4 -> "4" [] d = 5 -> "5" [] d = 6 -> "6" [] d = 7 -> "7"
      [] d = 8 -> "8" [] d = 9 -> "9"

RECURSIVE NatStr(_)
NatStr(i) == IF i < 10 THEN Digit(i) ELSE NatStr(i \div 10) \o Digit(i % 10)

\* str(v) of a primitive: a str is itself, an int is its decimal numeral
PyStr(v) ==
    IF v.k = "str" THEN v.s
    ELSE IF v.n < 0 THEN "-" \o NatStr(0 - v.n) ELSE NatStr(v.n)

(***************************************************************************)
(* Enum classes                                                            *)
(***************************************************************************)
NoLabel == "<no label>"

MemberNames == <<"A", "B", "C", "D">>

ValuePool == {StrV(""), StrV("7"), IntV(7), IntV(0 - 12)}

LabelPool == {NoLabel, "7"}

MemberPool == [value : ValuePool, label : LabelPool]

\* enum.Enum: an enum with at least one member; member values are pairwise
\* different (an equal value would make an alias, which iteration skips)
Enums ==
    {e \in UNION {[1..len -> MemberPool] : len \in 1..MaxMembers} :
        \A i, j \in DOMAIN e : i # j => e[i].value # e[j].value}

\* str(member): the label where the enum has one, else "Class.NAME"
MemberStr(e, i) ==
    IF e[i].label = NoLabel THEN "E." \o MemberNames[i] ELSE e[i].label

\* getattr(i, 'label', i.name)
MemberDisplay(e, i) ==
    IF e[i].label = NoLabel THEN MemberNames[i] ELSE e[i].label

Min(S) == CHOOSE x \in S : \A y \in S : x <= y

Max(S) == CHOOSE x \in S : \A y \in S : x >= y

(***************************************************************************)
(* EnumFieldMixin.to_python, get_prep_value                                *)
(***************************************************************************)
Ok(v) == [exc |-> "", val |-> v]

Raise(code) == [exc |-> code, val |-> None]

\* self.enum(value): the position of the member, 0 for ValueError
EnumCall(e, v) ==
    IF v.k = "member" THEN v.n
    ELSE IF \E i \in DOMAIN e : e[i].value = v
         THEN CHOOSE i \in DOMAIN e : e[i].value = v
         ELSE 0

\* FirstMatch without the "or str(m) == value"
FirstMatchByValue(e, s) ==
    LET hits == {i \in DOMAIN e : PyStr(e[i].value) = s}
    IN  IF hits = {} THEN 0 ELSE Min(hits)

\* next(m for m in self.enum if str(m.value) == value or str(m) == value):
\* the position of the first such member, 0 for StopIteration
FirstMatch(e, s) ==
    LET hits == {i \in DOMAIN e : PyStr(e[i].value) = s \/ MemberStr(e, i) = s}
    IN  IF hits = {} THEN 0 ELSE Min(hits)

\* to_python returning None where it should raise
ToPythonLenient(e, v) ==
    IF v = None \/ v = StrV("") THEN Ok(None)
    ELSE IF EnumCall(e, v) # 0 THEN Ok(MemberV(EnumCall(e, v)))
    ELSE IF v.k = "str" /\ FirstMatch(e, v.s) # 0
         THEN Ok(MemberV(FirstMatch(e, v.s)))
    ELSE Ok(None)

ToPython(e, v) ==
    IF v = None \/ v = StrV("") THEN Ok(None)
    ELSE IF EnumCall(e, v) # 0 THEN Ok(MemberV(EnumCall(e, v)))
    ELSE IF v.k = "str" /\ FirstMatch(e, v.s) # 0
         THEN Ok(MemberV(FirstMatch(e, v.s)))
    ELSE Raise("invalid_enum_value")

\* get_prep_value returning str(value.value), as value_to_string does
GetPrepValueStr(e, v) ==
    LET r == ToPython(e, v)
    IN  IF r.exc # "" THEN r
        ELSE IF r.val # None THEN Ok(StrV(PyStr(e[r.val.n].value)))
        ELSE Ok(None)

GetPrepValue(e, v) ==
    LET r == ToPython(e, v)
    IN  IF r.exc # "" THEN r
        ELSE IF r.val # None THEN Ok(e[r.val.n].value)
        ELSE Ok(None)

(***************************************************************************)
(* CastOnAssignDescriptor                                                  *)
(***************************************************************************)
FieldName == "f"

\* __set__ storing the value as given
DescriptorSetRaw(d, e, v) ==
    [dict |-> (FieldName :> v) @@ d, exc |-> ""]

\* __set__ storing the value as given before it converts it
DescriptorSetEager(d, e, v) ==
    LET r == ToPython(e, v)
    IN  IF r.exc # "" THEN [dict |-> (FieldName :> v) @@ d, exc |-> r.exc]
        ELSE [dict |-> (FieldName :> r.val) @@ d, exc |-> ""]

\* obj.__dict__[self.field.name] = self.field.to_python(value)
DescriptorSet(d, e, v) ==
    LET r == ToPython(e, v)
    IN  IF r.exc # "" THEN [dict |-> d, exc |-> r.exc]
        ELSE [dict |-> (FieldName :> r.val) @@ d, exc |-> ""]

\* return obj.__dict__[self.field.name]
DescriptorGet(d) ==
    IF FieldName \in DOMAIN d THEN Ok(d[FieldName]) ELSE Raise("KeyError")

(***************************************************************************)
(* The values a caller may pass                                            *)
(***************************************************************************)
Args(e) ==
    {None, Obj}
    \cup {MemberV(i) : i \in DOMAIN e}
    \cup {StrV(s) : s \in {"", "7", "-12", "x"}}
    \cup {StrV("E." \o MemberNames[i]) : i \in DOMAIN e}
    \cup {IntV(7), IntV(0 - 12), IntV(3)}

(***************************************************************************)
(* EnumFieldMixin.__init__ and get_choices                                 *)
(***************************************************************************)
Choice(key, display) == [key |-> key, display |-> display]

\* [(i, getattr(i, 'label', i.name)) for i in self.enum]
DefaultChoices(e) == [i \in DOMAIN e |-> Choice(MemberV(i), MemberDisplay(e, i))]

\* options: [has |-> "choices" in options, choices |-> options["choices"]]
FieldInitChoices(e, options) ==
    IF options.has THEN options.choices ELSE DefaultChoices(e)

BlankChoice == Choice(StrV(""), "---------")

\* Field.get_choices of the framework: the blank choice, unless one of the
\* choices is blank already, then the field's choices
SuperGetChoices(ch, include_blank) ==
    IF include_blank /\ ~ \E j \in DOMAIN ch : ch[j].key \in {StrV(""), None}
    THEN <<BlankChoice>> \o ch
    ELSE ch

\* get_choices handing the parent's keys on as they are
GetChoicesKeepKeys(e, ch, include_blank) == SuperGetChoices(ch, include_blank)

GetChoices(e, ch, include_blank) ==
    LET sup == SuperGetChoices(ch, include_blank)
    IN  [j \in DOMAIN sup |->
            Choice(IF sup[j].key.k = "member" THEN e[sup[j].key.n].value
                   ELSE sup[j].key,
                   sup[j].display)]

(***************************************************************************)
(* EnumField.check and _check_max_length_fit                               *)
(***************************************************************************)
FitId == "enumfields.max_length_fit"

FitMessage == "Values {unfit_values} of {enum} won't fit in the backing CharField (max_length={max_length})."

Finding(level, id, msg, obj, hint, unfit) ==
    [level |-> level, id |-> id, msg |-> msg, obj |-> obj, hint |-> hint,
     unfit |-> unfit]

\* len(str(e.value))
ValueLen(e, i) == Len(PyStr(e[i].value))

\* [e for e in self.enum if len(str(e.value)) > self.max_length]
UnfitValues(e, max_length) ==
    SelectSeq([i \in DOMAIN e |-> i], LAMBDA i : ValueLen(e, i) > max_length)

\* the shortest length instead of the longest
FitMinLength(e) == Min({ValueLen(e, i) : i \in DOMAIN e})

\* max([len(str(e.value)) for e in self.enum])
FitMaxLength(e) == Max({ValueLen(e, i) : i \in DOMAIN e})

\* f: [name, max_length]; max_length is None or an int
CheckMaxLengthFit(e, f) ==
    IF f.max_length.k = "int" /\ UnfitValues(e, f.max_length.n) # <<>>
    THEN <<Finding("Warning", FitId, FitMessage, f.name,
                   IntV(FitMaxLength(e)), UnfitValues(e, f.max_length.n))>>
    ELSE <<>>

\* CharField.check of the framework: its check of the max_length attribute,
\* fields.E120 for a missing one, fields.E121 for one that is not a
\* positive integer
CharFieldCheck(f) ==
    IF f.max_length = None
    THEN <<Finding("Error", "fields.E120",
                   "CharFields must define a 'max_length' attribute.",
                   f.name, None, <<>>)>>
    ELSE IF f.max_length.n <= 0
    THEN <<Finding("Error", "fields.E121",
                   "'max_length' must be a positive integer.",
                   f.name, None, <<>>)>>
    ELSE <<>>

\* [*super().check(**kwargs), *self._check_max_length_fit(**kwargs)]
EnumFieldCheck(e, f) == CharFieldCheck(f) \o CheckMaxLengthFit(e, f)

\* Model.check(): the findings of every field, in declaration order
RECURSIVE ModelCheck(_, _)
ModelCheck(e, fs) ==
    IF fs = <<>> THEN <<>>
    ELSE EnumFieldCheck(e, Head(fs)) \o ModelCheck(e, Tail(fs))

FieldNames == <<"f1", "f2", "f3">>

MaxLengthPool == {None, IntV(0 - 3), IntV(0), IntV(1), IntV(3)}

\* the model classes: one to three EnumFields of the same enum
ModelClasses ==
    UNION {{[i \in 1..len |-> [name |-> FieldNames[i], max_length |-> ml[i]]] :
              ml \in [1..len -> MaxLengthPool]} : len \in 1..Len(FieldNames)}

(***************************************************************************)
(* EnumSupportSerializerMixin.build_standard_field                         *)
(***************************************************************************)
\* dict.update: the entries of b win
Update(a, b) ==
    [k \in DOMAIN a \cup DOMAIN b |-> IF k \in DOMAIN b THEN b[k] ELSE a[k]]

\* del d[key]
Del(d, key) == [k \in DOMAIN d \ {key} |-> d[k]]

Kwargs(keys, v) == [k \in keys |-> v]

\* issubclass(field_class, ModelField)
IsModelFieldClass(c) == c = "ModelField"

\* build_standard_field without the del of "model_field"
BuildStandardFieldKeep(opts, in) ==
    IF ~ in.isEnum
    THEN [exc |-> "", cls |-> in.cls, kwargs |-> in.kwargs]
    ELSE IF "enum" \in DOMAIN opts
    THEN [exc |-> "TypeError", cls |-> in.cls, kwargs |-> in.kwargs]
    ELSE [exc |-> "", cls |-> "EnumSerializerField",
          kwargs |-> Update(in.kwargs, ("enum" :> in.enum) @@ opts)]

BuildStandardField(opts, in) ==
    IF ~ in.isEnum
    THEN [exc |-> "", cls |-> in.cls, kwargs |-> in.kwargs]
    ELSE IF IsModelFieldClass(in.cls) /\ "model_field" \notin DOMAIN in.kwargs
    THEN [exc |-> "KeyError", cls |-> in.cls, kwargs |-> in.kwargs]
    ELSE LET kw == IF IsModelFieldClass(in.cls)
                   THEN Del(in.kwargs, "model_field") ELSE in.kwargs
         IN  IF "enum" \in DOMAIN opts
             THEN [exc |-> "TypeError", cls |-> in.cls, kwargs |-> kw]
             ELSE [exc |-> "", cls |-> "EnumSerializerField",
                   kwargs |-> Update(kw, ("enum" :> in.enum) @@ opts)]

\* the serializer's enumfield_options: any keyword arguments
OptionSets ==
    UNION {{Kwargs(ks, v) : v \in {"opt"}} :
             ks \in SUBSET {"lenient", "required", "enum", "model_field"}}

\* what the parent's build_standard_field returns: the keyword arguments
\* carry "model_field" exactly for the ModelField fallback
ParentResults ==
    {[cls |-> c, kwargs |-> Kwargs(ks \cup (IF c = "ModelField" THEN {"model_field"} ELSE {}), "parent")] :
        c \in {"ModelField", "ChoiceField", "CharField"},
        ks \in SUBSET {"required", "choices"}}

DrfInputs ==
    {[isEnum |-> b, enum |-> en, cls |-> p.cls, kwargs |-> p.kwargs] :
        b \in BOOLEAN, en \in {"Color", "Taste"}, p \in ParentResults}

NoDrfIn == [isEnum |-> FALSE, enum |-> "", cls |-> "", kwargs |-> <<>>]

NoDrfOut == [exc |-> "not called", cls |-> "", kwargs |-> <<>>]

(***************************************************************************)
(* The state machines                                                      *)
(***************************************************************************)
Call(op, arg, r) == [op |-> op, arg |-> arg, exc |-> r.exc, ret |-> r.val]

InitValues ==
    /\ enum \in Enums
    /\ dict = ("id" :> IntV(3))
    /\ last = Call("init", None, Ok(None))

Set(v) ==
    /\ dict' = DescriptorSet(dict, enum, v).dict
    /\ last' = Call("set", v, [exc |-> DescriptorSet(dict, enum, v).exc, val |-> None])
    /\ UNCHANGED <<enum, choices, choicesOut, fields, checked, findings, drfIn, drfOpts, drfOut>>

Get ==
    /\ last' = Call("get", None, DescriptorGet(dict))
    /\ UNCHANGED <<enum, dict, choices, choicesOut, fields, checked, findings, drfIn, drfOpts, drfOut>>

CallToPython(v) ==
    /\ last' = Call("to_python", v, ToPython(enum, v))
    /\ UNCHANGED <<enum, dict, choices, choicesOut, fields, checked, findings, drfIn, drfOpts, drfOut>>

CallGetPrepValue(v) ==
    /\ last' = Call("get_prep_value", v, GetPrepValue(enum, v))
    /\ UNCHANGED <<enum, dict, choices, choicesOut, fields, checked, findings, drfIn, drfOpts, drfOut>>

NoChoicesOut == [called |-> FALSE, include_blank |-> FALSE, out |-> <<>>]

IdleChoices == choices = <<>> /\ choicesOut = NoChoicesOut

IdleCheck == fields = <<>> /\ checked = FALSE /\ findings = <<>>

IdleDrf == drfIn = NoDrfIn /\ drfOpts = <<>> /\ drfOut = NoDrfOut

Init == InitValues /\ IdleChoices /\ IdleCheck /\ IdleDrf

Next ==
    \/ \E v \in Args(enum) : Set(v)
    \/ Get
    \/ \E v \in Args(enum) : CallToPython(v)
    \/ \E v \in Args(enum) : CallGetPrepValue(v)

Spec == Init /\ [][Next]_vars

\* the "choices" option a field may be built with
MaxChoices == 2

ChoicePool(e) ==
    {Choice(MemberV(i), "member") : i \in DOMAIN e}
    \cup {Choice(StrV("7"), "seven"), Choice(Obj, "other"), Choice(None, "none")}

ChoiceOptions(e) ==
    {[has |-> FALSE, choices |-> <<>>]}
    \cup {[has |-> TRUE, choices |-> c] :
            c \in UNION {[1..len -> ChoicePool(e)] : len \in 0..MaxChoices}}

InitChoices ==
    /\ enum \in Enums
    /\ \E o \in ChoiceOptions(enum) : choices = FieldInitChoices(enum, o)
    /\ choicesOut = NoChoicesOut
    /\ dict = <<>> /\ last = Call("init", None, Ok(None))
    /\ IdleCheck /\ IdleDrf

CallGetChoices(include_blank) ==
    /\ choicesOut' = [called |-> TRUE, include_blank |-> include_blank,
                      out |-> GetChoices(enum, choices, include_blank)]
    /\ UNCHANGED <<enum, dict, last, choices, fields, checked, findings, drfIn, drfOpts, drfOut>>

NextChoices == \E b \in BOOLEAN : CallGetChoices(b)

SpecChoices == InitChoices /\ [][NextChoices]_vars

InitCheck ==
    /\ enum \in Enums
    /\ fields \in ModelClasses
    /\ checked = FALSE
    /\ findings = <<>>
    /\ dict = <<>> /\ last = Call("init", None, Ok(None))
    /\ IdleChoices /\ IdleDrf

RunModelCheck ==
    /\ ~ checked
    /\ checked' = TRUE
    /\ findings' = ModelCheck(enum, fields)
    /\ UNCHANGED <<enum, dict, last, choices, choicesOut, fields, drfIn, drfOpts, drfOut>>

NextCheck == RunModelCheck

SpecCheck == InitCheck /\ [][NextCheck]_vars

InitDrf ==
    /\ drfOpts \in OptionSets
    /\ drfIn = NoDrfIn
    /\ drfOut = NoDrfOut
    /\ enum = <<>> /\ dict = <<>> /\ last = Call("init", None, Ok(None))
    /\ IdleChoices /\ IdleCheck

CallBuildStandardField(in) ==
    /\ drfIn' = in
    /\ drfOut' = BuildStandardField(drfOpts, in)
    /\ UNCHANGED <<enum, dict, last, choices, choicesOut, fields, checked, findings, drfOpts>>

NextDrf == \E in \in DrfInputs : CallBuildStandardField(in)

SpecDrf == InitDrf /\ [][NextDrf]_vars

(***************************************************************************)
(* Properties of the descriptor and of to_python / get_prep_value (Spec)   *)
(***************************************************************************)
IsMemberOrNone(e, v) == v = None \/ (v.k = "member" /\ v.n \in DOMAIN e)

\* the members a string names by str(m.value) or by str(m)
NamedBy(e, s) ==
    {i \in DOMAIN e : PyStr(e[i].value) = s \/ MemberStr(e, i) = s}

\* a value matches a member by identity, by primitive value or, for a
\* str, by string form
Matches(e, v) ==
    \/ v.k = "member" /\ v.n \in DOMAIN e
    \/ \E i \in DOMAIN e : e[i].value = v
    \/ v.k = "str" /\ NamedBy(e, v.s) # {}

\* C1: whatever was assigned, successfully or not, the value stored for the
\* attribute, and the value a read returns, is a member of the field's enum
\* or None, never a raw primitive.
C1_StoredIsMemberOrNone ==
    /\ FieldName \in DOMAIN dict => IsMemberOrNone(enum, dict[FieldName])
    /\ (last.op = "get" /\ last.exc = "") => IsMemberOrNone(enum, last.ret)

\* a raw primitive was assigned and a member is stored
C1_Witness ==
    /\ last.op = "set" /\ last.exc = ""
    /\ last.arg.k \in {"str", "int"}
    /\ dict[FieldName].k = "member"

\* C2 as stated: for every member m, get_prep_value(m) succeeds and
\* to_python of the primitive it returns is m.
C2_Original ==
    (last.op = "get_prep_value" /\ last.arg.k = "member")
        => /\ last.exc = ""
           /\ ToPython(enum, last.ret) = Ok(last.arg)

\* C2 amended: for every member m whose value is not the empty string,
\* get_prep_value(m) succeeds and to_python of the primitive it returns is m.
C2_RoundTrip ==
    (/\ last.op = "get_prep_value" /\ last.arg.k = "member"
     /\ enum[last.arg.n].value # StrV(""))
        => /\ last.exc = ""
           /\ ToPython(enum, last.ret) = Ok(last.arg)

\* get_prep_value turned a member into its int value, in an enum that also
\* has a member whose label is that number's numeral
C2_Witness ==
    /\ last.op = "get_prep_value" /\ last.arg.k = "member"
    /\ last.ret = IntV(7)
    /\ \E j \in DOMAIN enum : j # last.arg.n /\ enum[j].label = "7"
    /\ ToPython(enum, last.ret) = Ok(last.arg)

\* C3 as stated: a string equal to str(m.value) or str(m) of a member m is
\* resolved to m by to_python, and by assignment.
C3_Original ==
    (last.op \in {"to_python", "set"} /\ last.arg.k = "str")
        => \A i \in NamedBy(enum, last.arg.s) :
              /\ last.exc = ""
              /\ last.op = "to_python" => last.ret = MemberV(i)
              /\ last.op = "set" => dict[FieldName] = MemberV(i)

\* C3 amended: a non-empty string equal to str(m.value) or str(m) of a
\* member m, and of no other member, is resolved to m by to_python and by
\* assignment; a non-empty string that several members answer to is resolved
\* to one of them.
C3_StringResolves ==
    (last.op \in {"to_python", "set"} /\ last.arg.k = "str"
     /\ last.arg.s # "" /\ NamedBy(enum, last.arg.s) # {})
        => LET got == IF last.op = "set" THEN dict[FieldName] ELSE last.ret
           IN  /\ last.exc = ""
               /\ got.k = "member" /\ got.n \in NamedBy(enum, last.arg.s)
               /\ \A i \in DOMAIN enum :
                     NamedBy(enum, last.arg.s) = {i} => got = MemberV(i)

\* a string that is no member's value was resolved by str(member)
C3_Witness ==
    /\ last.op = "set" /\ last.arg = StrV("E.B") /\ last.exc = ""
    /\ NamedBy(enum, "E.B") = {2}
    /\ dict[FieldName] = MemberV(2)

\* C4 as stated: every value other than None that matches no member is
\* refused with invalid_enum_value by to_python and by assignment.
C4_Original ==
    (last.op \in {"to_python", "set"} /\ last.arg # None
     /\ ~ Matches(enum, last.arg))
        => last.exc = "invalid_enum_value"

\* C4 amended: every value other than None and the empty string that
\* matches no member is refused with invalid_enum_value by to_python and by
\* assignment (the empty string is accepted and gives None).
C4_UnmatchedRefused ==
    (last.op \in {"to_python", "set"} /\ last.arg # None
     /\ last.arg # StrV("") /\ ~ Matches(enum, last.arg))
        => last.exc = "invalid_enum_value"

\* an int that is no member's value, though its numeral is a member's
\* value, was refused
C4_Witness ==
    /\ last.op = "to_python" /\ last.arg = IntV(7)
    /\ \E i \in DOMAIN enum : enum[i].value = StrV("7")
    /\ last.exc = "invalid_enum_value"

\* C9: an assignment that fails with invalid_enum_value leaves every
\* attribute of the instance as it was, and a read returns what is stored.
C9_FailedSetKeepsValue ==
    [][/\ (last'.op = "set" /\ last'.exc = "invalid_enum_value") => dict' = dict
       /\ (last'.op = "get" /\ FieldName \in DOMAIN dict)
             => (last'.exc = "" /\ last'.ret = dict[FieldName])]_vars

\* an assignment failed after an earlier one had stored a member
C9_Witness ==
    /\ last.op = "set" /\ last.exc = "invalid_enum_value"
    /\ FieldName \in DOMAIN dict
    /\ dict[FieldName].k = "member"

(***************************************************************************)
(* Properties of get_choices (SpecChoices)                                 *)
(***************************************************************************)
\* C8: get_choices returns the parent's list with the same length, order
\* and display strings; a key that is a member of the field's enum is
\* replaced by the member's value, any other key is kept; no key of the
\* result is a member.
C8_ChoicesUseValues ==
    choicesOut.called =>
        LET sup == SuperGetChoices(choices, choicesOut.include_blank)
            out == choicesOut.out
        IN  /\ Len(out) = Len(sup)
            /\ \A j \in 1..Len(sup) :
                  /\ out[j].display = sup[j].display
                  /\ sup[j].key.k = "member" => out[j].key = enum[sup[j].key.n].value
                  /\ sup[j].key.k # "member" => out[j].key = sup[j].key
                  /\ out[j].key.k # "member"

\* the default choices of a two-member enum, with the blank choice
C8_Witness ==
    /\ choicesOut.called /\ choicesOut.include_blank
    /\ choices = DefaultChoices(enum)
    /\ Len(enum) = 2
    /\ Len(choicesOut.out) = 3

(***************************************************************************)
(* Properties of the checks (SpecCheck)                                    *)
(***************************************************************************)
\* a field whose max_length is shorter than the longest str(value)
Offending(e, f) ==
    f.max_length.k = "int" /\ \E i \in DOMAIN e : ValueLen(e, i) > f.max_length.n

FindingsOf(fs, name) == SelectSeq(fs, LAMBDA x : x.obj = name)

FieldIndex(name) == CHOOSE i \in DOMAIN FieldNames : FieldNames[i] = name

TooSmallMessage(e) ==
    "'max_length' is too small to fit the longest value in 'choices' ("
        \o NatStr(FitMaxLength(e)) \o " characters)."

\* C5 as stated: checking a model with EnumFields whose max_length is too
\* short gives exactly one finding per offending field and none for a field
\* that fits, in declaration order, each attributed to its field.
C5_Original ==
    (checked /\ \E i \in DOMAIN fields : Offending(enum, fields[i]))
        => /\ \A i \in DOMAIN fields :
                 fields[i].max_length.k = "int" =>
                    Len(FindingsOf(findings, fields[i].name))
                        = IF Offending(enum, fields[i]) THEN 1 ELSE 0
           /\ \A a, b \in DOMAIN findings :
                 a < b => FieldIndex(findings[a].obj) <= FieldIndex(findings[b].obj)

\* C6 as stated: every finding for a field whose max_length is too small is
\* an error fields.E009 whose message gives the length of the longest value.
C6_Original ==
    checked =>
        \A a \in DOMAIN findings :
            (\E i \in DOMAIN fields :
                 fields[i].name = findings[a].obj /\ Offending(enum, fields[i]))
            => /\ findings[a].level = "Error"
               /\ findings[a].id = "fields.E009"
               /\ findings[a].msg = TooSmallMessage(enum)

C7_Frame(guard) ==
    drfOut # NoDrfOut =>
        /\ (drfIn.isEnum /\ guard) =>
              /\ drfOut.exc = ""
              /\ drfOut.cls = "EnumSerializerField"
              /\ "enum" \in DOMAIN drfOut.kwargs
              /\ drfOut.kwargs["enum"] = drfIn.enum
              /\ \A k \in DOMAIN drfOpts :
                    k \in DOMAIN drfOut.kwargs /\ drfOut.kwargs[k] = drfOpts[k]
              /\ "model_field" \notin DOMAIN drfOut.kwargs
        /\ ~ drfIn.isEnum =>
              /\ drfOut.exc = ""
              /\ drfOut.cls = drfIn.cls
              /\ drfOut.kwargs = drfIn.kwargs

\* C7 as stated: for an enum field the result is the enum-aware serializer
\* field with enum = model_field.enum and every entry of enumfield_options
\* and without "model_field"; for any other field it is the parent's result.
C7_Original == C7_Frame(TRUE)

\* C7 amended: the same, provided enumfield_options has no entry "enum"
\* (build_standard_field then raises TypeError) and no entry "model_field"
\* (which then is in the result).
C7_BuildStandardField ==
    C7_Frame("enum" \notin DOMAIN drfOpts /\ "model_field" \notin DOMAIN drfOpts)

\* an enum field the parent mapped to ModelField, with an option that
\* overrides one of the parent's keyword arguments
C7_Witness ==
    /\ drfIn.isEnum /\ drfIn.cls = "ModelField"
    /\ "required" \in DOMAIN drfIn.kwargs
    /\ DOMAIN drfOpts = {"lenient", "required"}
    /\ drfOut.exc = ""

====
